---- MODULE Spec2Model ----
(***************************************************************************)
(* QRCodeGenerator (QRcode.py): a configuration object with five fields,   *)
(* set_properties, and generate, which drives the qrcode/PIL libraries and *)
(* writes an image file.                                                   *)
(*                                                                         *)
(* Python values that may be None are sequences of length at most one:     *)
(* None is <<>> and a value v is <<v>>.  A text payload is its length in   *)
(* bytes (lower-case text, which the encoder puts in byte mode).  A path   *)
(* is [abs, parts].  The library calls follow qrcode 7.x (QRCode.__init__, *)
(* best_fit, make_image) and PIL (Image.save).                             *)
(***************************************************************************)
EXTENDS Integers, Sequences, FiniteSets, TLC

(* ------------------------------ bounds -------------------------------- *)
\* payloads of 1..MaxShortLen bytes are tried besides the boundary payloads
MaxShortLen == 1

(* --------------------------- Python values ---------------------------- *)
None == <<>>
Some(v) == <<v>>
Get(o) == o[1]

(* ------------------------------ paths --------------------------------- *)
RelPath(parts) == [abs |-> FALSE, parts |-> parts]
AbsPath(parts) == [abs |-> TRUE, parts |-> parts]

\* the default of generate's output_file parameter
DefaultOutputFile == RelPath(<<"qrcode5.png">>)

\* the process's working directory and the directories that exist
Cwd == <<"home", "user">>
Dirs == {Cwd, <<"tmp">>}

\* os.path.abspath: a relative path is joined to the working directory
abspath(p) == IF p.abs THEN p ELSE AbsPath(Cwd \o p.parts)

\* the directory that holds the file a path names
dirname(p) == SubSeq(abspath(p).parts, 1, Len(abspath(p).parts) - 1)

\* the names bound in the module's namespace by its import and class statements
ModuleGlobals == {"qrcode", "Image", "QRCodeGenerator"}

(* ----------------------- the wrapped libraries ------------------------ *)
\* qrcode.constants.ERROR_CORRECT_H
ERROR_CORRECT_H == 2

\* data codewords of versions 1..40 at level H; index 1 is version 0
DataCodewordsH ==
  << 0, 9, 16, 26, 36, 46, 60, 66, 86, 100, 122, 140, 158, 180, 197, 223,
     253, 283, 313, 341, 385, 406, 442, 464, 514, 538, 596, 628, 661, 701,
     745, 793, 845, 901, 961, 986, 1054, 1096, 1142, 1222, 1276 >>

\* the same at level M, the level QRCode uses when none is given
DataCodewordsM ==
  << 0, 16, 28, 44, 64, 86, 108, 124, 154, 182, 216, 254, 290, 334, 365,
     415, 453, 507, 563, 627, 669, 714, 782, 860, 914, 1000, 1062, 1128,
     1193, 1267, 1373, 1455, 1541, 1631, 1725, 1812, 1914, 1992, 2102,
     2216, 2334 >>

\* util.BIT_LIMIT_TABLE[error_correction][version]
BIT_LIMIT(error_correction, version) ==
  8 * (IF error_correction = ERROR_CORRECT_H
       THEN DataCodewordsH[version + 1]
       ELSE DataCodewordsM[version + 1])

\* util.mode_sizes_for_version, byte mode: width of the character count field
mode_sizes_for_version(version) == IF version < 10 THEN 8 ELSE 16

\* bits of one byte-mode segment: mode indicator, character count, data
needed_bits(data, version) == 4 + mode_sizes_for_version(version) + 8 * data

\* bisect_left(BIT_LIMIT_TABLE[ec], needed, start): the first version from
\* start on whose limit is at least needed; 41 when there is none
RECURSIVE bisect_left(_, _, _)
bisect_left(error_correction, needed, start) ==
  IF start > 40 THEN 41
  ELSE IF BIT_LIMIT(error_correction, start) >= needed THEN start
  ELSE bisect_left(error_correction, needed, start + 1)

\* QRCode.best_fit(start): the smallest version >= start that holds the data;
\* 41 stands for DataOverflowError
RECURSIVE best_fit(_, _, _)
best_fit(data, error_correction, start) ==
  LET version == bisect_left(error_correction, needed_bits(data, start), start)
  IN IF version = 41 THEN 41
     ELSE IF mode_sizes_for_version(start) # mode_sizes_for_version(version)
          THEN best_fit(data, error_correction, version)
          ELSE version

\* QRCode.__init__: the checks of box_size, border and version
QRCode(args) ==
  IF Get(args.box_size) <= 0 THEN Some("ValueError")
  ELSE IF Get(args.border) < 0 THEN Some("ValueError")
  ELSE IF Get(args.version) < 1 \/ Get(args.version) > 40 THEN Some("ValueError")
  ELSE None

\* the color names PIL's ImageColor knows, among those tried
KnownColors == {"black", "white", "red", "yellow"}

\* QRCode.make_image: PIL rejects a color specifier it does not know
make_image(args) ==
  IF Get(args.back_color) \notin KnownColors THEN Some("ValueError")
  ELSE IF Get(args.fill_color) \notin KnownColors THEN Some("ValueError")
  ELSE None

\* the image make_image renders: 17 + 4 * version modules a side, plus the
\* border on both sides, each module box_size pixels
Image(version, qr, colors, data) ==
  [ version |-> version,
    error_correction |-> qr.error_correction,
    pixel_size |-> (17 + 4 * version + 2 * Get(qr.border)) * Get(qr.box_size),
    fill_color |-> Get(colors.fill_color),
    back_color |-> Get(colors.back_color),
    data |-> data ]

\* Image.save: opening the file fails when its directory does not exist
save(output_file) ==
  IF dirname(output_file) \in Dirs THEN None ELSE Some("OSError")

(* ------------------------------ inputs -------------------------------- *)
Runs == {1, 2}

\* payload lengths: short ones, one too long for version 4 at level H (35),
\* one that moves the character count field to 16 bits (120), one too long
\* for version 40 (1274)
Data == (1..MaxShortLen) \cup {35, 120, 1274}
Paths == {DefaultOutputFile, AbsPath(<<"tmp", "q.png">>), RelPath(<<"missing", "q.png">>)}

Overrides ==
  [ size : {None, Some(0), Some(40)},
    border : {None, Some(-1), Some(0)},
    fill_color : {None, Some("red"), Some("bogus")},
    back_color : {None, Some("yellow")},
    box_size : {None, Some(0), Some(2)} ]

\* the inputs of the two-run specification
PairData == (1..MaxShortLen) \cup {35}
PairPaths == Paths
PairOverrides ==
  [ size : {None, Some(40)}, border : {None}, fill_color : {None},
    back_color : {None}, box_size : {None} ]

(* ------------------------------- state -------------------------------- *)
\* per run of the program: the generator object's fields (self), the files
\* on disk (the absolute paths that exist), the last call and what it did,
\* and whether set_properties was ever called
VARIABLES self, files, last, everSet

vars == <<self, files, last, everSet>>

Fields == {"size", "border", "fill_color", "back_color", "box_size"}

\* what a call did: its arguments, the exception it ended in, the value it
\* returned, the arguments it gave QRCode(...) and make_image(...), the image
\* rendered and the file Image.save wrote
Call(op, args, error, ret, qr, colors, img, written) ==
  [ op |-> op, args |-> args, error |-> error, ret |-> ret,
    qr |-> qr, colors |-> colors, img |-> img, written |-> written ]

\* __init__ with the defaults of border and box_size exchanged
init_swapped ==
  [ size |-> Some(4),
    border |-> Some(10),
    fill_color |-> Some("black"),
    back_color |-> Some("white"),
    box_size |-> Some(4) ]

\* QRCodeGenerator.__init__
__init__ ==
  [ size |-> Some(4),
    border |-> Some(4),
    fill_color |-> Some("black"),
    back_color |-> Some("white"),
    box_size |-> Some(10) ]

Init ==
  /\ self = [r \in Runs |-> __init__]
  /\ files = [r \in Runs |-> {}]
  /\ last = [r \in Runs |-> Call("__init__", None, None, None, None, None, None, None)]
  /\ everSet = [r \in Runs |-> FALSE]

\* the assignment without its "is not None" test
assign_unguarded(old, new) == new

\* "if x is not None: self.x = x"
assign(old, new) == IF new # None THEN new ELSE old

\* set_properties whose box_size branch is missing
set_properties_dropped(r, a) ==
  /\ self' = [self EXCEPT ![r] =
       [ size |-> assign(@.size, a.size),
         border |-> assign(@.border, a.border),
         fill_color |-> assign(@.fill_color, a.fill_color),
         back_color |-> assign(@.back_color, a.back_color),
         box_size |-> @.box_size ]]
  /\ last' = [last EXCEPT ![r] =
       Call("set_properties", a, None, None, None, None, None, None)]
  /\ everSet' = [everSet EXCEPT ![r] = TRUE]
  /\ UNCHANGED files

\* set_properties whose border branch assigns self.size
set_properties_swapped(r, a) ==
  /\ self' = [self EXCEPT ![r] =
       [ size |-> assign(assign(@.size, a.size), a.border),
         border |-> @.border,
         fill_color |-> assign(@.fill_color, a.fill_color),
         back_color |-> assign(@.back_color, a.back_color),
         box_size |-> assign(@.box_size, a.box_size) ]]
  /\ last' = [last EXCEPT ![r] =
       Call("set_properties", a, None, None, None, None, None, None)]
  /\ everSet' = [everSet EXCEPT ![r] = TRUE]
  /\ UNCHANGED files

set_properties(r, a) ==
  /\ self' = [self EXCEPT ![r] =
       [ size |-> assign(@.size, a.size),
         border |-> assign(@.border, a.border),
         fill_color |-> assign(@.fill_color, a.fill_color),
         back_color |-> assign(@.back_color, a.back_color),
         box_size |-> assign(@.box_size, a.box_size) ]]
  /\ last' = [last EXCEPT ![r] =
       Call("set_properties", a, None, None, None, None, None, None)]
  /\ everSet' = [everSet EXCEPT ![r] = TRUE]
  /\ UNCHANGED files

\* QRCode(...) called without error_correction: the library's level M (0)
encoder_args_default_level(r) ==
  [ version |-> self[r].size,
    error_correction |-> 0,
    box_size |-> self[r].box_size,
    border |-> self[r].border ]

\* an encoder kept from the previous generate call, with the version it fitted
encoder_args_kept(r) ==
  [ version |-> IF last[r].op = "generate" /\ last[r].img # None
                THEN Some(Get(last[r].img).version)
                ELSE self[r].size,
    error_correction |-> ERROR_CORRECT_H,
    box_size |-> self[r].box_size,
    border |-> self[r].border ]

\* the arguments of the qrcode.QRCode(...) call
encoder_args(r) ==
  [ version |-> self[r].size,
    error_correction |-> ERROR_CORRECT_H,
    box_size |-> self[r].box_size,
    border |-> self[r].border ]

\* the arguments of the qr.make_image(...) call
image_args(r) ==
  [ fill_color |-> self[r].fill_color, back_color |-> self[r].back_color ]

\* qr.make(fit=False): the configured version or DataOverflowError
make_nofit(data, qr) ==
  IF needed_bits(data, Get(qr.version)) <= BIT_LIMIT(qr.error_correction, Get(qr.version))
  THEN Get(qr.version)
  ELSE 41

\* version chosen by qr.make(fit=True); 41 when the data fits no version
make(data, qr) == best_fit(data, qr.error_correction, Get(qr.version))

\* "return os.path.abspath(output_file)": the name os is looked up first
return_abspath(output_file) ==
  IF "os" \in ModuleGlobals
  THEN [error |-> None, ret |-> Some(abspath(output_file))]
  ELSE [error |-> Some("NameError"), ret |-> None]

\* generate with its body in "try: ... except Exception: pass"
result_caught(error, output_file) == return_abspath(output_file)

\* how generate ends: an exception raised by a statement is not caught, and
\* only when none was raised is the return statement reached
result(error, output_file) ==
  IF error # None THEN [error |-> error, ret |-> None]
  ELSE return_abspath(output_file)

\* generate, statement by statement; the first statement that raises ends it
generate(r, data, output_file) ==
  LET qr == encoder_args(r)
      e1 == QRCode(qr)
      version == IF e1 = None THEN make(data, qr) ELSE 0
      e2 == IF e1 # None THEN e1
            ELSE IF version = 41 THEN Some("DataOverflowError") ELSE None
      colors == IF e2 = None THEN Some(image_args(r)) ELSE None
      e3 == IF e2 # None THEN e2 ELSE make_image(Get(colors))
      img == IF e3 = None THEN Some(Image(version, qr, Get(colors), data)) ELSE None
      e4 == IF e3 # None THEN e3 ELSE save(output_file)
      written == IF e4 = None THEN Some(abspath(output_file)) ELSE None
      out == result(e4, output_file)
  IN /\ files' = IF written # None
                 THEN [files EXCEPT ![r] = @ \cup {Get(written)}]
                 ELSE files
     /\ last' = [last EXCEPT ![r] =
          Call("generate", [data |-> data, output_file |-> output_file],
               out.error, out.ret, Some(qr), colors, img, written)]
     /\ UNCHANGED <<self, everSet>>

Next ==
  \/ \E a \in Overrides : set_properties(1, a)
  \/ \E data \in Data, output_file \in Paths : generate(1, data, output_file)

Spec == Init /\ [][Next]_vars

\* two independent runs of the program
NextPair ==
  \/ \E r \in Runs, a \in PairOverrides : set_properties(r, a)
  \/ \E r \in Runs, data \in PairData, output_file \in PairPaths : generate(r, data, output_file)

SpecPair == Init /\ [][NextPair]_vars

(* --------------------------- the properties --------------------------- *)
\* the data-model domains of the three integer fields
InDomain(c) == Get(c.size) >= 1 /\ Get(c.border) >= 0 /\ Get(c.box_size) > 0

\* a configuration the libraries accept
ValidConfig(c) ==
  /\ InDomain(c)
  /\ Get(c.size) <= 40
  /\ Get(c.fill_color) \in KnownColors
  /\ Get(c.back_color) \in KnownColors

\* the payload fits a symbol of this version at level H
Holds(data, version) == needed_bits(data, version) <= BIT_LIMIT(ERROR_CORRECT_H, version)

Writable(output_file) == dirname(output_file) \in Dirs

\* the arguments set_properties was given lie in the data-model domains
OverridesInDomain(a) ==
  /\ a.size # None => Get(a.size) >= 1
  /\ a.border # None => Get(a.border) >= 0
  /\ a.box_size # None => Get(a.box_size) > 0

\* the exception the libraries raise for this configuration, payload and path
LibraryError(c, data, output_file) ==
  IF ~InDomain(c) \/ Get(c.size) > 40 THEN Some("ValueError")
  ELSE IF \A v \in Get(c.size)..40 : ~Holds(data, v) THEN Some("DataOverflowError")
  ELSE IF Get(c.fill_color) \notin KnownColors \/ Get(c.back_color) \notin KnownColors
       THEN Some("ValueError")
  ELSE IF ~Writable(output_file) THEN Some("OSError")
  ELSE None

\* C1: generate with a valid configuration, a payload that fits the configured
\* version and a writable output_file completes normally, the file exists
\* afterwards, and the value returned is the absolute form of output_file.
C1_GenerateReturnsAbsolutePath ==
  ( /\ last[1].op = "generate"
    /\ ValidConfig(self[1])
    /\ Holds(last[1].args.data, Get(self[1].size))
    /\ Writable(last[1].args.output_file) )
  => /\ last[1].error = None
     /\ last[1].ret = Some(abspath(last[1].args.output_file))
     /\ Get(last[1].ret).abs
     /\ Get(last[1].ret) \in files[1]

\* C2 (as claimed): generate with a payload too long for the configured
\* version at level H fails with an error and produces no image.
C2_TooLongFails ==
  ( /\ last[1].op = "generate"
    /\ ValidConfig(self[1])
    /\ ~Holds(last[1].args.data, Get(self[1].size)) )
  => last[1].error # None /\ last[1].img = None /\ last[1].written = None

\* C2 (amended): a payload that fits no version from the configured one up to
\* 40 ends generate in DataOverflowError with no image and no file; a payload
\* too long for the configured version that fits a larger one is encoded
\* whole at the smallest version that holds it, and the image is saved when
\* the path is writable.
C2_TooLongRefits ==
  (last[1].op = "generate" /\ ValidConfig(self[1]))
  => LET data == last[1].args.data
         size == Get(self[1].size)
     IN /\ (\A v \in size..40 : ~Holds(data, v))
           => /\ last[1].error = Some("DataOverflowError")
              /\ last[1].img = None
              /\ last[1].ret = None
              /\ last[1].written = None
        /\ (~Holds(data, size) /\ \E v \in size..40 : Holds(data, v))
           => /\ last[1].img # None
              /\ Get(last[1].img).data = data
              /\ Get(last[1].img).version > size
              /\ Holds(data, Get(last[1].img).version)
              /\ \A v \in size..(Get(last[1].img).version - 1) : ~Holds(data, v)
              /\ Writable(last[1].args.output_file)
                 => last[1].written = Some(abspath(last[1].args.output_file))

C2_Witness ==
  /\ last[1].op = "generate"
  /\ ValidConfig(self[1])
  /\ ~Holds(last[1].args.data, Get(self[1].size))
  /\ last[1].img # None
  /\ Get(last[1].img).version = 11
  /\ last[1].written # None

\* C3: set_properties sets exactly the fields it is given a value for to that
\* value and leaves every other field as it was before the call.
C3_SetPropertiesFrame ==
  [][ last'[1].op = "set_properties"
      => \A f \in Fields :
           self'[1][f] = IF last'[1].args[f] # None THEN last'[1].args[f] ELSE self[1][f]
    ]_vars

C3_Witness ==
  /\ last[1].op = "set_properties"
  /\ last[1].args.size = Some(40) /\ self[1].size = Some(40)
  /\ last[1].args.border = None /\ self[1].border = Some(0)
  /\ last[1].args.box_size = Some(2) /\ self[1].box_size = Some(2)
  /\ last[1].args.fill_color = None /\ self[1].fill_color = Some("red")

\* C4: a new generator has size 4, border 4, fill_color "black", back_color
\* "white" and box_size 10, and generate uses these values as long as
\* set_properties has not been called.
C4_Defaults ==
  ~everSet[1]
  => /\ Get(self[1].size) = 4
     /\ Get(self[1].border) = 4
     /\ Get(self[1].fill_color) = "black"
     /\ Get(self[1].back_color) = "white"
     /\ Get(self[1].box_size) = 10
     /\ last[1].op = "generate"
        => /\ Get(Get(last[1].qr).version) = 4
           /\ Get(Get(last[1].qr).border) = 4
           /\ Get(Get(last[1].qr).box_size) = 10
           /\ last[1].colors # None
              => /\ Get(Get(last[1].colors).fill_color) = "black"
                 /\ Get(Get(last[1].colors).back_color) = "white"

C4_Witness ==
  /\ ~everSet[1]
  /\ last[1].op = "generate"
  /\ last[1].img # None
  /\ last[1].written # None

\* C5: two successive generate calls with different output paths both
\* complete and leave a file at each path, and generate never changes a
\* configuration field.
C5_TwoGeneratesComplete ==
  [][ /\ last'[1].op = "generate" => self'[1] = self[1]
      /\ ( /\ last[1].op = "generate" /\ last'[1].op = "generate"
           /\ abspath(last[1].args.output_file) # abspath(last'[1].args.output_file)
           /\ LibraryError(self[1], last[1].args.data, last[1].args.output_file) = None
           /\ LibraryError(self[1], last'[1].args.data, last'[1].args.output_file) = None )
         => /\ last[1].error = None
            /\ last'[1].error = None
            /\ abspath(last[1].args.output_file) \in files'[1]
            /\ abspath(last'[1].args.output_file) \in files'[1]
    ]_vars

\* C6: no configuration field is ever None, whatever set_properties and
\* generate calls were made, explicit None arguments included.
C6_NoFieldIsNone == \A f \in Fields : self[1][f] # None

C6_Witness ==
  /\ last[1].op = "set_properties"
  /\ last[1].args.size = None
  /\ last[1].args.fill_color = None
  /\ last[1].args.border # None

\* C7 (as claimed): after any set_properties calls the version is >= 1, the
\* border >= 0 and the box size > 0.
C7_ConfigInDomains == InDomain(self[1])

\* C7 (amended): the defaults lie in the data-model domains, and a
\* set_properties call whose given arguments lie in them keeps them.
C7_ValidOverridesKeepDomains ==
  /\ InDomain(self[1])
  /\ [][ ( /\ last'[1].op = "set_properties"
           /\ InDomain(self[1])
           /\ OverridesInDomain(last'[1].args) )
         => InDomain(self'[1]) ]_vars

C7_Witness ==
  /\ last[1].op = "set_properties"
  /\ last[1].args.size = Some(40)
  /\ last[1].args.border = Some(0)
  /\ last[1].args.box_size = Some(2)
  /\ InDomain(self[1])

\* C8: when a library call raises during generate, generate ends in that
\* error, returns no path, reports no file written and leaves the
\* configuration and the files as they were.
C8_LibraryErrorsPropagate ==
  [][ last'[1].op = "generate"
      => LET e == LibraryError(self[1], last'[1].args.data, last'[1].args.output_file)
         IN e # None
            => /\ last'[1].error = e
               /\ last'[1].ret = None
               /\ last'[1].written = None
               /\ self'[1] = self[1]
               /\ files'[1] = files[1]
    ]_vars

C8_Witness ==
  /\ last[1].op = "generate"
  /\ last[1].error = Some("OSError")
  /\ last[1].img # None
  /\ everSet[1]

\* C9: generate builds the encoder from the configuration as it stands at
\* the call and always at level H, and renders with the configured colors.
C9_EncoderFromConfig ==
  [][ last'[1].op = "generate"
      => /\ last'[1].qr = Some([ version |-> self[1].size,
                                 error_correction |-> ERROR_CORRECT_H,
                                 box_size |-> self[1].box_size,
                                 border |-> self[1].border ])
         /\ last'[1].colors # None
            => last'[1].colors = Some([ fill_color |-> self[1].fill_color,
                                        back_color |-> self[1].back_color ])
         /\ last'[1].img # None
            => /\ Get(last'[1].img).error_correction = ERROR_CORRECT_H
               /\ Get(last'[1].img).version >= Get(self[1].size)
               /\ Get(last'[1].img).fill_color = Get(self[1].fill_color)
               /\ Get(last'[1].img).back_color = Get(self[1].back_color)
               /\ Get(last'[1].img).pixel_size =
                    (17 + 4 * Get(last'[1].img).version + 2 * Get(self[1].border))
                      * Get(self[1].box_size)
    ]_vars

C9_Witness ==
  /\ last[1].op = "generate"
  /\ self[1].size = Some(40)
  /\ self[1].border = Some(0)
  /\ self[1].box_size = Some(2)
  /\ self[1].fill_color = Some("red")
  /\ self[1].back_color = Some("yellow")
  /\ last[1].img # None

\* C10: two runs that have the same configuration and call generate with the
\* same data and output_file get the same outcome (error, returned value,
\* encoder arguments, image, file written), whatever calls came before.
C10_SameInputsSameOutcome ==
  ( /\ last[1].op = "generate" /\ last[2].op = "generate"
    /\ self[1] = self[2]
    /\ last[1].args = last[2].args )
  => /\ last[1].error = last[2].error
     /\ last[1].ret = last[2].ret
     /\ last[1].qr = last[2].qr
     /\ last[1].img = last[2].img
     /\ last[1].written = last[2].written

C10_Witness ==
  /\ last[1].op = "generate" /\ last[2].op = "generate"
  /\ self[1] = self[2]
  /\ last[1].args = last[2].args
  /\ last[1].img # None
  /\ everSet[1] /\ ~everSet[2]
  /\ files[1] # files[2]

====
